---- MODULE Spec2Model ----
(***************************************************************************)
(* min_gl: Options / Display (src/src/lib.rs) and the caller's main loop   *)
(* (src/src/lib.rs tests::window_with_event_logging, src/src/main.rs).     *)
(*                                                                         *)
(* One thread runs everything.  pc is the next statement of that thread;   *)
(* the windowing system is the only other actor and it only appends        *)
(* events to the operating system's pending list (os_pending), which       *)
(* poll_events turns into messages on the Receiver (events).               *)
(***************************************************************************)
EXTENDS Integers, Sequences, FiniteSets, TLC

\* Bound of the model: number of window events the windowing system produces.
MaxEvents == 3

-----------------------------------------------------------------------------
(* Option<T> *)
None == <<>>
Some(x) == <<x>>
IsSome(o) == Len(o) = 1
Unwrap(o) == o[1]

-----------------------------------------------------------------------------
(* u32 / i32 arithmetic of Options::create and Options::config_context.    *)
(* A u32 is kept as its two 16-bit halves, value = hi * 2^16 + lo, so that *)
(* the full 32-bit range is covered.                                       *)
Half == 256 * 256

U32(hi, lo) == [hi |-> hi, lo |-> lo]

\* a < b on u32
LtU32(a, b) == a.hi < b.hi \/ (a.hi = b.hi /\ a.lo < b.lo)

\* a - b modulo 2^32 (what the subtraction yields without overflow checks)
wrapping_sub(a, b) ==
    LET borrow == IF a.lo < b.lo THEN 1 ELSE 0
    IN  U32((a.hi - b.hi - borrow) % Half, (a.lo - b.lo) % Half)

\* `x as i32` for x: u32 (two's complement reinterpretation)
as_i32(x) ==
    IF x.hi >= Half \div 2 THEN (x.hi - Half) * Half + x.lo
                           ELSE x.hi * Half + x.lo

\* `x / 2` for x: i32 (rounds toward zero)
div2_i32(x) == IF x >= 0 THEN x \div 2 ELSE (x + 1) \div 2

\* `a - b` on u32 as the build compiles it: with overflow checks (debug
\* profile) an underflow panics, without them (release profile) it wraps.
sub_u32(a, b, checks) ==
    IF checks /\ LtU32(a, b)
    THEN [panic |-> TRUE, val |-> U32(0, 0)]
    ELSE [panic |-> FALSE, val |-> wrapping_sub(a, b)]

\* lib.rs:71-72, one coordinate of the position given to set_pos
pos_coord(vid, win, checks) ==
    LET d == sub_u32(vid, win, checks)
    IN  [panic |-> d.panic, val |-> div2_i32(as_i32(d.val))]

-----------------------------------------------------------------------------
(* Inputs *)
Widths == {U32(0, 640), U32(0, 1280), U32(Half - 1, Half - 1)}
Heights == {U32(0, 720), U32(0, 1080)}
MsaaSet == {None, Some(16)}
OptionsSet ==
    [width : Widths, height : Heights, title : {"Display Test"},
     fullscreen : BOOLEAN, decorated : BOOLEAN, msaa : MsaaSet,
     vsync : BOOLEAN]
\* video modes the primary monitor may report
VidModes == {[width |-> U32(0, 1024), height |-> U32(0, 768)]}
\* window events the windowing system may produce
EventKinds == {"Key", "Close"}
\* what the caller may draw between two render() calls
DrawCmds == {"tri"}

-----------------------------------------------------------------------------
VARIABLES
    debug,          \* build profile: debug_assertions and overflow checks
    driver,         \* the caller: "loop" (the main loop of the test / main.rs)
                    \* or "free" (any sequence of calls on the Display)
    opt,            \* the Options given to Display::new
    pc,             \* next statement of the thread
    api,            \* the Display function running, or the last one that ran
    trace,          \* calls made by that function so far, in order
    failure,        \* the startup step the environment made fail ("none" if none)
    panic_msg,      \* None, or Some(message) once the thread has panicked
    glfw_init,      \* glfw::init has succeeded
    hints,          \* the window hints of the windowing library
    window,         \* None, or Some(the window's state)
    vidmode,        \* None, or Some(video mode), the local of Options::create
    context_current,\* the GL context is current on the thread
    gl_loaded,      \* the GL function pointers are loaded
    swap_interval,  \* None until set, then Some(0) or Some(1)
    viewport,       \* None until set, then Some(<<x, y, w, h>>)
    multisample,    \* GL_MULTISAMPLE capability
    clear_color,    \* GL clear colour
    os_pending,     \* events the windowing system holds until the next poll
    events,         \* the Receiver<(f64, WindowEvent)>: queued messages
    sent,           \* history: every message ever put on the Receiver
    handled,        \* history: every event the handler was called with
    event_count,    \* the application state the handler closure captures
    polled_n,       \* history: length of the Receiver when the last poll ended
    front,          \* what the front buffer shows
    back,           \* what has been drawn into the back buffer
    drawn           \* history: what the caller drew since the last render()

vars == <<debug, driver, opt, pc, api, trace, failure, panic_msg, glfw_init,
          hints, window, vidmode, context_current, gl_loaded, swap_interval,
          viewport, multisample, clear_color, os_pending, events, sent,
          handled, event_count, polled_n, front, back, drawn>>

glVars == <<context_current, gl_loaded, swap_interval, viewport, multisample,
            clear_color>>
queueVars == <<os_pending, events, sent, handled, event_count, polled_n>>
bufVars == <<front, back, drawn>>
buildVars == <<debug, driver, opt>>

\* the windowing library's default hints (glfw.default_window_hints())
DefaultHints ==
    [resizable |-> TRUE, decorated |-> TRUE, samples |-> Some(0),
     version |-> <<1, 0>>, forward_compat |-> FALSE, profile |-> "Any",
     debug_context |-> FALSE]

Init ==
    /\ debug \in BOOLEAN
    /\ driver \in {"loop", "free"}
    /\ opt \in OptionsSet
    /\ pc = "init"
    /\ api = "new"
    /\ trace = <<>>
    /\ failure = "none"
    /\ panic_msg = None
    /\ glfw_init = FALSE
    /\ hints = DefaultHints
    /\ window = None
    /\ vidmode = None
    /\ context_current = FALSE
    /\ gl_loaded = FALSE
    /\ swap_interval = None
    /\ viewport = None
    /\ multisample = TRUE
    /\ clear_color = <<0, 0, 0, 0>>
    /\ os_pending = <<>>
    /\ events = <<>>
    /\ sent = <<>>
    /\ handled = <<>>
    /\ event_count = 0
    /\ polled_n = 0
    /\ front = {}
    /\ back = {}
    /\ drawn = {}

-----------------------------------------------------------------------------
(* Display::new, lib.rs:113-132, with Options::config / create /           *)
(* config_context inlined at their call sites.                             *)

\* the statements of new() in program order; pc names the next one
NewStepsHintsLate ==
    <<"init", "with_primary_monitor", "create_window", "config",
      "get_video_mode", "set_pos", "set_cursor_pos", "set_all_polling",
      "make_current", "load", "config_context", "construct">>

NewSteps ==
    <<"init", "with_primary_monitor", "config", "create_window",
      "get_video_mode", "set_pos", "set_cursor_pos", "set_all_polling",
      "make_current", "load", "config_context", "construct">>

NextStep(s) ==
    LET i == CHOOSE k \in 1..Len(NewSteps) : NewSteps[k] = s
    IN  NewSteps[i + 1]

\* Option::expect / Result::expect and the explicit panic!: the thread goes
\* on only when the value is there.
expect_ignored(ok, next) == next

expect(ok, next) == IF ok THEN next ELSE "panicked"

\* where the caller continues after new() / update() / render() returns
Ret(after) == IF driver = "loop" THEN after ELSE "idle"

\* one fallible startup call: it is logged, and the thread continues or panics
Fallible(name, ok, fail, msg) ==
    /\ trace' = Append(trace, name)
    /\ pc' = expect(ok, NextStep(pc))
    /\ failure' = IF ok THEN failure ELSE fail
    /\ panic_msg' = IF pc' = "panicked" THEN Some(msg) ELSE panic_msg

\* one infallible startup call
Plain(name) ==
    /\ trace' = Append(trace, name)
    /\ pc' = NextStep(pc)
    /\ UNCHANGED <<failure, panic_msg>>

\* lib.rs:114
GlfwInit ==
    /\ pc = "init"
    /\ \E ok \in BOOLEAN :
          /\ glfw_init' = ok
          /\ Fallible("glfw::init", ok, "init", "Could not initialize the GLFW!")
    /\ UNCHANGED <<buildVars, api, hints, window, vidmode, glVars, queueVars,
                   bufVars>>

\* lib.rs:115-116, 119-121
WithPrimaryMonitor ==
    /\ pc = "with_primary_monitor"
    /\ \E mon \in BOOLEAN :
          Fallible("with_primary_monitor", mon, "monitor",
                   "Could not get the primary monitor!")
    /\ UNCHANGED <<buildVars, api, glfw_init, hints, window, vidmode, glVars,
                   queueVars, bufVars>>

\* Options::config, lib.rs:41-52
config(o, dbg) ==
    [resizable |-> FALSE, decorated |-> o.decorated, samples |-> o.msaa,
     version |-> <<4, 6>>, forward_compat |-> TRUE, profile |-> "Core",
     debug_context |-> dbg]

Config ==
    /\ pc = "config"
    /\ hints' = config(opt, debug)
    /\ Plain("config")
    /\ UNCHANGED <<buildVars, api, glfw_init, window, vidmode, glVars,
                   queueVars, bufVars>>

\* glfw.create_window, lib.rs:55-66: the window takes the hints in force
new_window(o, h) ==
    [width |-> o.width, height |-> o.height, title |-> o.title,
     mode |-> IF o.fullscreen THEN "FullScreen" ELSE "Windowed",
     resizable |-> h.resizable, decorated |-> h.decorated,
     samples |-> h.samples, pos |-> None, cursor |-> None,
     polling |-> FALSE, should_close |-> FALSE]

CreateWindow ==
    /\ pc = "create_window"
    /\ \E ok \in BOOLEAN :
          /\ window' = IF ok THEN Some(new_window(opt, hints)) ELSE None
          /\ Fallible("create_window", ok, "window",
                      "Could not create the window!")
    /\ UNCHANGED <<buildVars, api, glfw_init, hints, vidmode, glVars,
                   queueVars, bufVars>>

\* lib.rs:67-69
GetVideoMode ==
    /\ pc = "get_video_mode"
    /\ \E vm \in {None} \cup {Some(v) : v \in VidModes} :
          /\ vidmode' = vm
          /\ Fallible("get_video_mode", IsSome(vm), "vidmode",
                      "Could not get the vidmode of the monitor!")
    /\ UNCHANGED <<buildVars, api, glfw_init, hints, window, glVars,
                   queueVars, bufVars>>

\* lib.rs:70-73: the arguments are evaluated left to right, then set_pos runs
SetPos ==
    /\ pc = "set_pos"
    /\ LET vm == Unwrap(vidmode)
           x == pos_coord(vm.width, opt.width, debug)
           y == pos_coord(vm.height, opt.height, debug)
       IN  IF x.panic \/ y.panic
           THEN /\ pc' = "panicked"
                /\ failure' = "overflow"
                /\ panic_msg' = Some("attempt to subtract with overflow")
                /\ UNCHANGED <<window, trace>>
           ELSE /\ window' = Some([Unwrap(window) EXCEPT
                                      !.pos = Some(<<x.val, y.val>>)])
                /\ Plain("set_pos")
    /\ UNCHANGED <<buildVars, api, glfw_init, hints, vidmode, glVars,
                   queueVars, bufVars>>

\* lib.rs:74-75: the cursor position is kept in half pixels, so that
\* `width as f64 / 2.0` is exactly `width` half pixels; create() returns and
\* its local vidmode goes out of scope
SetCursorPos ==
    /\ pc = "set_cursor_pos"
    /\ window' = Some([Unwrap(window) EXCEPT
                          !.cursor = Some(<<opt.width, opt.height>>)])
    /\ vidmode' = None
    /\ Plain("set_cursor_pos")
    /\ UNCHANGED <<buildVars, api, glfw_init, hints, glVars, queueVars,
                   bufVars>>

\* lib.rs:123
SetAllPolling ==
    /\ pc = "set_all_polling"
    /\ window' = Some([Unwrap(window) EXCEPT !.polling = TRUE])
    /\ Plain("set_all_polling")
    /\ UNCHANGED <<buildVars, api, glfw_init, hints, vidmode, glVars,
                   queueVars, bufVars>>

\* lib.rs:124
MakeCurrent ==
    /\ pc = "make_current"
    /\ context_current' = TRUE
    /\ Plain("make_current")
    /\ UNCHANGED <<buildVars, api, glfw_init, hints, window, vidmode,
                   gl_loaded, swap_interval, viewport, multisample,
                   clear_color, queueVars, bufVars>>

\* lib.rs:125: the proc addresses resolve only with a current context
Load ==
    /\ pc = "load"
    /\ gl_loaded' = context_current
    /\ Plain("gl::load")
    /\ UNCHANGED <<buildVars, api, glfw_init, hints, window, vidmode,
                   context_current, swap_interval, viewport, multisample,
                   clear_color, queueVars, bufVars>>

\* Options::config_context, lib.rs:78-85: the context state it leaves
config_context(o, ms) ==
    [swap_interval |-> Some(IF o.vsync THEN 1 ELSE 0),
     viewport |-> Some(<<0, 0, as_i32(o.width), as_i32(o.height)>>),
     multisample |-> IsSome(o.msaa)]

ConfigContext ==
    /\ pc = "config_context"
    /\ LET c == config_context(opt, multisample)
       IN  /\ swap_interval' = c.swap_interval
           /\ viewport' = c.viewport
           /\ multisample' = c.multisample
    /\ trace' = trace \o <<"set_swap_interval", "gl::Viewport",
                           IF IsSome(opt.msaa) THEN "gl::Enable"
                                               ELSE "gl::Disable">>
    /\ pc' = NextStep(pc)
    /\ UNCHANGED <<buildVars, api, failure, panic_msg, glfw_init, hints,
                   window, vidmode, context_current, gl_loaded, clear_color,
                   queueVars, bufVars>>

\* lib.rs:127-131: new() returns the Display to the caller
Construct ==
    /\ pc = "construct"
    /\ pc' = Ret("check")
    /\ UNCHANGED <<buildVars, api, trace, failure, panic_msg, glfw_init,
                   hints, window, vidmode, glVars, queueVars, bufVars>>

-----------------------------------------------------------------------------
(* The windowing system *)

\* a key press, a close request, ... happens; it waits for the next poll
OsEvent ==
    /\ IsSome(window)
    /\ pc \notin {"panicked", "exited"}
    /\ Len(sent) + Len(os_pending) < MaxEvents
    /\ \E k \in EventKinds : os_pending' = Append(os_pending, k)
    /\ UNCHANGED <<buildVars, pc, api, trace, failure, panic_msg, glfw_init,
                   hints, window, vidmode, glVars, events, sent, handled,
                   event_count, polled_n, bufVars>>

\* the caller, holding disp.window() (lib.rs:150-152), calls a window function
\* whose callback the windowing library runs at once (a resize, say): the
\* message is on the Receiver without a poll.  The main loop of the test only
\* calls should_close() there, so this is a step of the free caller.
DirectEvent ==
    /\ pc = "idle"
    /\ Unwrap(window).polling
    /\ Len(sent) + Len(os_pending) < MaxEvents
    /\ LET m == <<Len(sent) + 1, "Size">>
       IN  /\ events' = Append(events, m)
           /\ sent' = Append(sent, m)
    /\ api' = "window"
    /\ trace' = <<>>
    /\ UNCHANGED <<buildVars, pc, failure, panic_msg, glfw_init, hints,
                   window, vidmode, glVars, os_pending, handled, event_count,
                   polled_n, bufVars>>

-----------------------------------------------------------------------------
(* Display::update, lib.rs:142-147 *)

\* glfw.poll_events(): every pending event whose polling is enabled is sent
\* to the Receiver as (time, event), in the order it happened; `n` messages
\* were sent before
poll_events(pending, polling, n) ==
    IF polling
    THEN [i \in 1..Len(pending) |-> <<n + i, pending[i]>>]
    ELSE <<>>

\* glfw::flush_messages(&self.events): the iterator's next item is the
\* oldest queued message (Receiver::try_recv), None when the queue is empty
flush_next_newest(q) == IF q = <<>> THEN None ELSE Some(q[Len(q)])

flush_next(q) == IF q = <<>> THEN None ELSE Some(Head(q))

\* the queue after the iterator has yielded an item
flush_rest_keep(q) == q

flush_rest(q) == Tail(q)

\* the `for` loop ends when the iterator yields None
flush_done_after_one(q, calls) == q = <<>> \/ calls >= 1

flush_done(q, calls) == flush_next(q) = None

\* the caller's closure, lib.rs:187-194: `event_count += 1`, then the event
\* is printed; st is what the closure captures and what it has printed
handler_keys_only(st, e) ==
    [event_count |-> IF e = "Key" THEN st.event_count + 1 ELSE st.event_count,
     handled |-> Append(st.handled, e)]

handler(st, e) ==
    [event_count |-> st.event_count + 1, handled |-> Append(st.handled, e)]

\* the statement that follows the first call of render() / update()
AfterCallRenderFlushes(call) == "flush"

AfterCall(call) ==
    CASE call = "poll_events" -> "flush"
      [] call = "swap_buffers" -> "clear"

\* number of handler calls update() has made so far
HandlerCalls == Len(SelectSeq(trace, LAMBDA c : c = "handler"))

\* lib.rs:143
PollEvents ==
    /\ pc \in {"idle", "update"}
    /\ LET w == Unwrap(window)
           msgs == poll_events(os_pending, w.polling, Len(sent))
       IN  /\ events' = events \o msgs
           /\ sent' = sent \o msgs
           /\ window' = Some([w EXCEPT !.should_close =
                      w.should_close
                      \/ \E i \in 1..Len(os_pending) : os_pending[i] = "Close"])
           /\ polled_n' = Len(events')
    /\ os_pending' = <<>>
    /\ api' = "update"
    /\ trace' = <<"poll_events">>
    /\ pc' = AfterCall("poll_events")
    /\ UNCHANGED <<buildVars, failure, panic_msg, glfw_init, hints, vidmode,
                   glVars, handled, event_count, bufVars>>

\* lib.rs:144-146, one iteration: (self.handler)(event), where the handler is
\* the caller's closure (lib.rs:187-194): it counts the event and prints it
HandleEvent ==
    /\ pc = "flush"
    /\ ~flush_done(events, HandlerCalls)
    /\ LET m == Unwrap(flush_next(events))
           st == handler([event_count |-> event_count, handled |-> handled],
                         m[2])
       IN  /\ handled' = st.handled
           /\ event_count' = st.event_count
    /\ events' = flush_rest(events)
    /\ trace' = Append(trace, "handler")
    /\ UNCHANGED <<buildVars, pc, api, failure, panic_msg, glfw_init, hints,
                   window, vidmode, glVars, os_pending, sent, polled_n,
                   bufVars>>

\* lib.rs:144, 147: the iterator is exhausted, update() returns
UpdateReturn ==
    /\ pc = "flush"
    /\ flush_done(events, HandlerCalls)
    /\ pc' = Ret("draw")
    /\ UNCHANGED <<buildVars, api, trace, failure, panic_msg, glfw_init,
                   hints, window, vidmode, glVars, queueVars, bufVars>>

-----------------------------------------------------------------------------
(* Display::render, lib.rs:136-139 *)

\* gl::Clear(gl::COLOR_BUFFER_BIT): nothing drawn is left in the buffer
clear_skipped(buf) == buf

clear(buf) == {}

\* lib.rs:137: what was drawn is shown; the back buffer for the next frame
\* is the buffer that was shown before
SwapBuffers ==
    /\ pc \in {"idle", "render"}
    /\ front' = back
    /\ back' = front
    /\ api' = "render"
    /\ trace' = <<"swap_buffers">>
    /\ pc' = AfterCall("swap_buffers")
    /\ UNCHANGED <<buildVars, failure, panic_msg, glfw_init, hints, window,
                   vidmode, glVars, queueVars, drawn>>

\* lib.rs:138-139
Clear ==
    /\ pc = "clear"
    /\ back' = clear(back)
    /\ drawn' = {}
    /\ trace' = Append(trace, "gl::Clear")
    /\ pc' = Ret("check")
    /\ UNCHANGED <<buildVars, api, failure, panic_msg, glfw_init, hints,
                   window, vidmode, glVars, queueVars, front>>

\* Display::window / Display::glfw, lib.rs:150-157: hand out a reference
Accessor ==
    /\ pc = "idle"
    /\ \E a \in {"window", "glfw"} : api' = a
    /\ trace' = <<>>
    /\ UNCHANGED <<buildVars, pc, failure, panic_msg, glfw_init, hints,
                   window, vidmode, glVars, queueVars, bufVars>>

-----------------------------------------------------------------------------
(* The caller *)

\* the caller draws into the back buffer (between "drawing start" and
\* "drawing end", lib.rs:202-206)
Draw ==
    /\ pc \in {"idle", "draw"}
    /\ \E c \in DrawCmds :
          /\ c \notin back
          /\ back' = back \cup {c}
          /\ drawn' = drawn \cup {c}
    /\ UNCHANGED <<buildVars, pc, api, trace, failure, panic_msg, glfw_init,
                   hints, window, vidmode, glVars, queueVars, front>>

\* lib.rs:198: while !disp.window().should_close()
LoopCheck ==
    /\ pc = "check"
    /\ api' = "window"
    /\ trace' = <<>>
    /\ pc' = IF Unwrap(window).should_close THEN "exited" ELSE "update"
    /\ UNCHANGED <<buildVars, failure, panic_msg, glfw_init, hints, window,
                   vidmode, glVars, queueVars, bufVars>>

\* lib.rs:204: gl::ClearColor(0.7, 0.5, 0.6, 1.0), then on to disp.render()
ClearColor ==
    /\ pc = "draw"
    /\ clear_color' = <<7, 5, 6, 10>>
    /\ pc' = "render"
    /\ UNCHANGED <<buildVars, api, trace, failure, panic_msg, glfw_init,
                   hints, window, vidmode, context_current, gl_loaded,
                   swap_interval, viewport, multisample, queueVars, bufVars>>

-----------------------------------------------------------------------------
Next ==
    \/ GlfwInit
    \/ WithPrimaryMonitor
    \/ Config
    \/ CreateWindow
    \/ GetVideoMode
    \/ SetPos
    \/ SetCursorPos
    \/ SetAllPolling
    \/ MakeCurrent
    \/ Load
    \/ ConfigContext
    \/ Construct
    \/ OsEvent
    \/ DirectEvent
    \/ PollEvents
    \/ HandleEvent
    \/ UpdateReturn
    \/ SwapBuffers
    \/ Clear
    \/ Accessor
    \/ Draw
    \/ LoopCheck
    \/ ClearColor

Spec == Init /\ [][Next]_vars

-----------------------------------------------------------------------------
(* Properties *)

\* the events of a sequence of (time, event) messages
EventsOf(q) == [i \in 1..Len(q) |-> q[i][2]]

IsPrefix(p, q) == Len(p) <= Len(q) /\ \A i \in 1..Len(p) : p[i] = q[i]

\* the first n elements of q (all of q when it is shorter)
Take(q, n) == SubSeq(q, 1, IF Len(q) < n THEN Len(q) ELSE n)

\* update() has returned and no other Display function has run since
UpdateReturned == api = "update" /\ pc # "flush"

\* render() has returned and no other Display function has run since
RenderReturned == api = "render" /\ pc # "clear"

\* C1: every message put on the Receiver is given to the handler exactly
\* once and in the order it was queued, within one update() and across
\* update() calls: at any time what the handler has seen, followed by what is
\* still queued, is exactly what was ever queued, and the handler's counter
\* is the number of events it has seen.
C1_ExactlyOnceFifo ==
    /\ handled \o EventsOf(events) = EventsOf(sent)
    /\ events = SubSeq(sent, Len(handled) + 1, Len(sent))
    /\ event_count = Len(handled)

\* three events were delivered, not all alike, two of them by the last
\* update() and one by an earlier one
C1_Witness ==
    /\ UpdateReturned
    /\ Len(handled) = 3
    /\ handled[2] # handled[3]
    /\ polled_n = 2

\* C2: when update() returns the Receiver is empty: every message queued
\* before the call or by its poll has been given to the handler.
C2_NoStaleEvents ==
    UpdateReturned => events = <<>> /\ handled = EventsOf(sent)

\* a render() has shown something, events were queued before and by the
\* poll of a later update(), and that update() has returned
C2_Witness ==
    /\ UpdateReturned
    /\ front # {}
    /\ polled_n >= 2
    /\ handled[Len(handled)] = "Close"
    /\ \E i \in 1..Len(handled) : handled[i] = "Size"

\* the calls new() has made when the given startup step fails
FailedTrace(f) ==
    CASE f = "init" -> <<"glfw::init">>
      [] f = "monitor" -> <<"glfw::init", "with_primary_monitor">>
      [] f = "window" ->
           <<"glfw::init", "with_primary_monitor", "config", "create_window">>
      [] f \in {"vidmode", "overflow"} ->
           <<"glfw::init", "with_primary_monitor", "config", "create_window",
             "get_video_mode">>

\* C3: a startup failure is fatal.  Once a step of new() has failed the
\* thread has panicked with a message, the failed call is the last call new()
\* made, no Display exists (no polling, no current context, no GL state, no
\* handler call, no buffer swap), and nothing at all happens afterwards.
C3_StartupFailureFatal ==
    /\ [](failure # "none" =>
            /\ pc = "panicked"
            /\ IsSome(panic_msg)
            /\ api = "new"
            /\ trace = FailedTrace(failure)
            /\ ~context_current /\ ~gl_loaded
            /\ swap_interval = None /\ viewport = None
            /\ (IsSome(window) => ~Unwrap(window).polling)
            /\ handled = <<>> /\ event_count = 0 /\ sent = <<>>
            /\ front = {} /\ back = {})
    /\ [][pc # "panicked"]_vars

\* the window was created and the monitor then had no video mode
C3_Witness ==
    /\ pc = "panicked"
    /\ failure = "vidmode"
    /\ IsSome(window)
    /\ panic_msg = Some("Could not get the vidmode of the monitor!")

\* the calls of a complete new(), in the order C4 states (the last one is
\* gl::Enable or gl::Disable)
NewOrder ==
    <<"glfw::init", "with_primary_monitor", "config", "create_window",
      "get_video_mode", "set_pos", "set_cursor_pos", "set_all_polling",
      "make_current", "gl::load", "set_swap_interval", "gl::Viewport">>

\* C4: new() makes its calls in the stated order: library init, primary
\* monitor, hints, window creation (so the window has the hints of the
\* Options), event polling, context current, GL loading, config_context; no
\* GL call is made before the context is current and the pointers are loaded.
C4_NewOrder ==
    /\ api = "new" =>
          /\ Len(trace) <= Len(NewOrder) + 1
          /\ IsPrefix(Take(trace, Len(NewOrder)), NewOrder)
          /\ Len(trace) = Len(NewOrder) + 1 =>
                trace[Len(trace)] \in {"gl::Enable", "gl::Disable"}
    /\ IsSome(window) =>
          /\ Unwrap(window).decorated = opt.decorated
          /\ Unwrap(window).samples = opt.msaa
          /\ ~Unwrap(window).resizable
          /\ hints = config(opt, debug)
    /\ context_current => Unwrap(window).polling
    /\ gl_loaded => context_current
    /\ (viewport # None \/ swap_interval # None) => gl_loaded /\ context_current

\* new() has made all its calls and is about to return the Display
C4_Witness ==
    /\ pc = "construct"
    /\ Len(trace) = Len(NewOrder) + 1
    /\ gl_loaded
    /\ viewport # None

\* (a - b) / 2 over the integers, rounded toward zero, for a, b: u32
Centre(a, b) ==
    LET dh == a.hi - b.hi
        dl == a.lo - b.lo
        neg == dh < 0 \/ (dh = 0 /\ dl < 0)
    IN  dh * (Half \div 2) + (IF neg THEN (dl + 1) \div 2 ELSE dl \div 2)

\* C5 (as claimed): Options::create never aborts in the centring computation
\* and the position it sets is ((vw - w) / 2, (vh - h) / 2), also when the
\* window is larger than the video mode.
C5_Centred ==
    /\ failure # "overflow"
    /\ pc = "set_cursor_pos" =>
          Unwrap(window).pos =
             Some(<<Centre(Unwrap(vidmode).width, opt.width),
                    Centre(Unwrap(vidmode).height, opt.height)>>)

\* the i32 value v is the value of the u32 u
EqU32(v, u) == v >= 0 /\ v \div Half = u.hi /\ v % Half = u.lo

\* C6 (as claimed): after config_context the swap interval is 1 or 0 as
\* vsync says, the viewport is (0, 0, width, height) of the Options, and
\* multisampling is on exactly when msaa is Some.  lib.rs:80 passes
\* `width as i32`, so a width above 2^31 - 1 arrives negative; such a run
\* gets past lib.rs:71 only by the wrapping subtraction of C5.
C6_ContextOfOptions ==
    pc = "construct" =>
       /\ swap_interval = Some(IF opt.vsync THEN 1 ELSE 0)
       /\ Unwrap(viewport)[1] = 0 /\ Unwrap(viewport)[2] = 0
       /\ EqU32(Unwrap(viewport)[3], opt.width)
       /\ EqU32(Unwrap(viewport)[4], opt.height)
       /\ multisample = (opt.msaa # None)

\* C7: render() swaps the buffers once and then clears once: between the two
\* calls the front buffer shows exactly what was drawn since the last
\* render(), and outside render() the back buffer holds exactly what was
\* drawn since the last render(), nothing of an older frame.
C7_SwapThenClear ==
    /\ pc = "clear" => trace = <<"swap_buffers">> /\ front = drawn
    /\ pc # "clear" => back = drawn
    /\ RenderReturned => trace = <<"swap_buffers", "gl::Clear">>

\* a render() has returned: what was drawn is shown and the back buffer is
\* clear
C7_Witness ==
    /\ RenderReturned
    /\ front = {"tri"}
    /\ back = {}
    /\ trace = <<"swap_buffers", "gl::Clear">>

\* C8: update() terminates after exactly as many handler calls as there were
\* messages queued when its poll ended: in the loop the calls made plus the
\* messages left is that number, the loop can always take its next step
\* (it never waits), it returns at once on an empty queue, and on return the
\* calls are the poll followed by that many handler calls.
C8_UpdateTerminates ==
    /\ pc = "flush" =>
          /\ HandlerCalls + Len(events) = polled_n
          /\ ENABLED HandleEvent \/ ENABLED UpdateReturn
          /\ events = <<>> => ENABLED UpdateReturn
    /\ UpdateReturned =>
          /\ HandlerCalls = polled_n
          /\ trace = <<"poll_events">> \o [i \in 1..polled_n |-> "handler"]

\* an update() that found the queue empty has returned without a handler call
\* although events were delivered before
C8_Witness ==
    /\ UpdateReturned
    /\ polled_n = 0
    /\ trace = <<"poll_events">>
    /\ Len(handled) >= 2

\* C9: in the main loop, once the check sees the close flag the thread's
\* next step leaves the loop (no update(), no render()) and nothing runs
\* afterwards; the loop is left only that way, and at that point the
\* handler's counter is the number of messages ever put on the Receiver.
C9_LoopExit ==
    /\ [](pc = "exited" =>
            /\ driver = "loop"
            /\ Unwrap(window).should_close
            /\ event_count = Len(sent)
            /\ events = <<>>)
    /\ [][/\ pc # "exited"
          /\ (pc = "check" /\ Unwrap(window).should_close /\ pc' # pc)
                => pc' = "exited"
          /\ pc' = "exited" => pc = "check" /\ Unwrap(window).should_close]_vars

\* the loop was left after three events, the close request being the last
C9_Witness ==
    /\ pc = "exited"
    /\ event_count = 3
    /\ handled[1] = "Key"
    /\ handled[3] = "Close"

\* C10: the handler runs, its captured state changes and a message leaves the
\* Receiver only in the loop of update(), after that update()'s poll; new(),
\* render(), window() and glfw() leave all three alone.
C10_HandlerOnlyInUpdate ==
    /\ []("handler" \in {trace[i] : i \in 1..Len(trace)} =>
             api = "update" /\ trace[1] = "poll_events")
    /\ [][(\/ handled' # handled
           \/ event_count' # event_count
           \/ ~IsPrefix(events, events'))
          => /\ api = "update" /\ api' = "update"
             /\ pc = "flush"
             /\ trace[1] = "poll_events"]_vars

\* render() has returned with a message on the Receiver that was there
\* before it ran, the handler having run earlier
C10_Witness ==
    /\ RenderReturned
    /\ Len(events) >= 1
    /\ Len(handled) >= 1
    /\ event_count = Len(handled)

====
